---- MODULE Spec2Model ----
(***************************************************************************)
(* Othello (src/src/App.tsx): the rules engine (isValidMove, makeMove,     *)
(* getValidMoves, countPieces) and the GameScreen session that drives it.  *)
(*                                                                         *)
(* A board is a function [0..n-1 -> [0..n-1 -> Cell]], indexed             *)
(* board[row][col] with 0-based indices as in the source.  The JavaScript  *)
(* value null is the string "null"; reading a column outside a row array   *)
(* gives "undefined"; reading a row outside the board and then indexing    *)
(* it raises a TypeError, which the engine calls record in `threw`.        *)
(*                                                                         *)
(* Four specifications share the variables:                                *)
(*   Spec        the App: size buttons of the start screen, and the        *)
(*               GameScreen's cell clicks, resets and back button;         *)
(*   SpecEngine  one call of an engine function on a board drawn from a    *)
(*               bounded family of arbitrary (also unreachable) boards;    *)
(*   SpecScreen  one GameScreen mounted with a board size small enough     *)
(*               to explore every game to its end: clicks and resets;      *)
(*   SpecPlay    one game without resets in which the player to move       *)
(*               keeps playing while a legal move exists.                  *)
(***************************************************************************)
EXTENDS Integers, Sequences, FiniteSets, TLC

\* ------------------------------------------------------------------ bounds
\* Accepted moves explored per session, over every line of play, on the
\* boards that are too large to explore to the end of the game (the 4x4
\* game is explored to its end, and so is one short game per larger size).
MaxMoves == 4
\* SpecEngine: how many cells of the initial board are overwritten with an
\* arbitrary cell value to obtain the argument boards.
MaxEdits == 2

\* ------------------------------------------------------------------- types
Players == {"black", "white"}

Cell == Players \cup {"null"}

\* The sizes the two buttons of the start screen offer.
BoardSizes == {6, 8}

\* GameScreen and the engine take the size as a parameter.  4 is the size
\* whose whole game tree (passes, blocked positions, full boards, ties) is
\* explored: SpecScreen and SpecPlay mount a GameScreen with it, which the
\* App itself never does.
ExhaustiveSizes == {4}

EngineSizes == {4}

Idx(boardSize) == 0 .. (boardSize - 1)

\* ----------------------------------------------------------- rules engine
\* createInitialBoard with the two colours of the centre cells exchanged.
createInitialBoardSwapped(size) ==
    LET center == size \div 2
    IN  [r \in Idx(size) |-> [c \in Idx(size) |->
            IF (r = center - 1 /\ c = center - 1) \/ (r = center /\ c = center)
            THEN "black"
            ELSE IF (r = center - 1 /\ c = center) \/ (r = center /\ c = center - 1)
            THEN "white"
            ELSE "null"]]

createInitialBoard(size) ==
    LET center == size \div 2
    IN  [r \in Idx(size) |-> [c \in Idx(size) |->
            IF (r = center - 1 /\ c = center - 1) \/ (r = center /\ c = center)
            THEN "white"
            ELSE IF (r = center - 1 /\ c = center) \/ (r = center /\ c = center - 1)
            THEN "black"
            ELSE "null"]]

\* The direction table without its entry [1, 0].
directionsWithoutDown ==
    << <<-1, -1>>, <<-1, 0>>, <<-1, 1>>,
       <<0, -1>>,             <<0, 1>>,
       <<1, -1>>,             <<1, 1>> >>

directions ==
    << <<-1, -1>>, <<-1, 0>>, <<-1, 1>>,
       <<0, -1>>,             <<0, 1>>,
       <<1, -1>>,  <<1, 0>>,  <<1, 1>> >>

Opponent(player) == IF player = "black" THEN "white" ELSE "black"

\* The loop condition of both directional scans.
InBoard(r, c, boardSize) == r >= 0 /\ r < boardSize /\ c >= 0 /\ c < boardSize

\* board[row][col] for a row that exists: a column outside the row array
\* reads as undefined.
CellAt(board, row, col) ==
    IF col \in DOMAIN board[row] THEN board[row][col] ELSE "undefined"

\* board[row] is undefined and board[row][col] raises a TypeError.
RowFaults(board, row) == row \notin DOMAIN board

\* ScanValid without the hasOpponent test: a player cell right next to the
\* move's cell counts as a capture.
RECURSIVE ScanValidNoOpponentTest(_, _, _, _, _, _, _, _)
ScanValidNoOpponentTest(board, r, c, dr, dc, player, boardSize, hasOpponent) ==
    IF ~InBoard(r, c, boardSize) THEN FALSE
    ELSE IF board[r][c] = Opponent(player)
         THEN ScanValidNoOpponentTest(board, r + dr, c + dc, dr, dc, player,
                                      boardSize, TRUE)
    ELSE IF board[r][c] = player THEN TRUE
    ELSE FALSE

\* The while loop of isValidMove for one direction, from cell (r,c).
RECURSIVE ScanValid(_, _, _, _, _, _, _, _)
ScanValid(board, r, c, dr, dc, player, boardSize, hasOpponent) ==
    IF ~InBoard(r, c, boardSize) THEN FALSE
    ELSE IF board[r][c] = Opponent(player)
         THEN ScanValid(board, r + dr, c + dc, dr, dc, player, boardSize, TRUE)
    ELSE IF board[r][c] = player /\ hasOpponent THEN TRUE
    ELSE FALSE

\* isValidMove for a row inside the board (see RowFaults for the others).
isValidMove(board, row, col, player, boardSize) ==
    IF CellAt(board, row, col) # "null" THEN FALSE
    ELSE \E i \in 1..Len(directions) :
            ScanValid(board, row + directions[i][1], col + directions[i][2],
                      directions[i][1], directions[i][2], player, boardSize, FALSE)

\* ScanFlips that keeps the collected run whatever ends it (an empty cell or
\* the edge of the board included).
RECURSIVE ScanFlipsOpenRuns(_, _, _, _, _, _, _, _)
ScanFlipsOpenRuns(newBoard, r, c, dr, dc, player, boardSize, toFlip) ==
    IF ~InBoard(r, c, boardSize) THEN toFlip
    ELSE IF newBoard[r][c] = Opponent(player)
         THEN ScanFlipsOpenRuns(newBoard, r + dr, c + dc, dr, dc, player,
                                boardSize, Append(toFlip, <<r, c>>))
    ELSE toFlip

\* The while loop of makeMove for one direction: the cells to flip, or none
\* when the run does not end at a cell of the player.
RECURSIVE ScanFlips(_, _, _, _, _, _, _, _)
ScanFlips(newBoard, r, c, dr, dc, player, boardSize, toFlip) ==
    IF ~InBoard(r, c, boardSize) THEN << >>
    ELSE IF newBoard[r][c] = Opponent(player)
         THEN ScanFlips(newBoard, r + dr, c + dc, dr, dc, player, boardSize,
                        Append(toFlip, <<r, c>>))
    ELSE IF newBoard[r][c] = player /\ Len(toFlip) > 0 THEN toFlip
    ELSE << >>

\* toFlip.forEach that clears every collected cell instead of recolouring it.
ApplyFlipsClears(newBoard, toFlip, player) ==
    LET cells == {toFlip[k] : k \in 1..Len(toFlip)}
    IN  [r \in DOMAIN newBoard |-> [c \in DOMAIN newBoard[r] |->
            IF <<r, c>> \in cells THEN "null" ELSE newBoard[r][c]]]

\* toFlip.forEach with the two indices exchanged: newBoard[fc][fr] = player.
ApplyFlipsTransposed(newBoard, toFlip, player) ==
    LET cells == {<<toFlip[k][2], toFlip[k][1]>> : k \in 1..Len(toFlip)}
    IN  [r \in DOMAIN newBoard |-> [c \in DOMAIN newBoard[r] |->
            IF <<r, c>> \in cells THEN player ELSE newBoard[r][c]]]

\* toFlip.forEach: write the player into every collected cell.
ApplyFlips(newBoard, toFlip, player) ==
    LET cells == {toFlip[k] : k \in 1..Len(toFlip)}
    IN  [r \in DOMAIN newBoard |-> [c \in DOMAIN newBoard[r] |->
            IF <<r, c>> \in cells THEN player ELSE newBoard[r][c]]]

\* The for loop of makeMove over the directions, from direction i on; each
\* direction scans the board as the earlier directions left it, and writes
\* to it only when its run ended at a cell of the player.
RECURSIVE FlipDirections(_, _, _, _, _, _)
FlipDirections(newBoard, row, col, player, boardSize, i) ==
    IF i > Len(directions) THEN newBoard
    ELSE LET dr == directions[i][1]
             dc == directions[i][2]
             toFlip == ScanFlips(newBoard, row + dr, col + dc, dr, dc, player,
                                 boardSize, << >>)
         IN  IF Len(toFlip) = 0
             THEN FlipDirections(newBoard, row, col, player, boardSize, i + 1)
             ELSE FlipDirections(ApplyFlips(newBoard, toFlip, player),
                                 row, col, player, boardSize, i + 1)

\* makeMove without the legality check of its first line: no call returns
\* early.
ReturnsInputNever(board, row, col, player, boardSize) == FALSE

\* The test of makeMove's first line: the call returns its argument.
ReturnsInput(board, row, col, player, boardSize) ==
    ~isValidMove(board, row, col, player, boardSize)

\* The board makeMove returns, for a row inside the board.
makeMove(board, row, col, player, boardSize) ==
    IF ReturnsInput(board, row, col, player, boardSize) THEN board
    ELSE FlipDirections([board EXCEPT ![row][col] = player],
                        row, col, player, boardSize, 1)

\* ---- makeMove on array objects.  A board is an outer array whose entries
\* refer to row arrays; an array object is named by a number.  In a call the
\* argument's outer array is object 0 and its row arrays are the objects
\* 1 .. boardSize.
ArgRef(boardSize) == [outer |-> 0, rows |-> [i \in Idx(boardSize) |-> i + 1]]

\* The row arrays before the call: the argument's rows hold the cells of
\* the argument board.
ArgHeap(board, boardSize) == [k \in 1..boardSize |-> board[k - 1]]

\* A copy of the outer array only, [...board]: the new board refers to the
\* row arrays of the argument.
CopyOuterOnly(boardSize) ==
    [outer |-> boardSize + 1, rows |-> ArgRef(boardSize).rows]

\* board.map(row => [...row]): a new outer array whose entries refer to new
\* row arrays, the objects boardSize + 2 .. 2 * boardSize + 1.
CopyBoard(boardSize) ==
    [outer |-> boardSize + 1, rows |-> [i \in Idx(boardSize) |-> boardSize + 2 + i]]

\* The row arrays after the copy: every row array the new board refers to
\* and the argument does not is created with the cells of the row it copies.
HeapAfterCopy(board, boardSize, newRef) ==
    [k \in (1..boardSize) \cup {newRef.rows[i] : i \in Idx(boardSize)} |->
        IF k \in 1..boardSize THEN board[k - 1]
        ELSE board[CHOOSE i \in Idx(boardSize) : newRef.rows[i] = k]]

\* The writes newBoard[row][col] = player and newBoard[fr][fc] = player go
\* to the row arrays newBoard refers to: such a row array ends with the
\* cells `written` gives its row, every other row array keeps its cells.
HeapAfterWrites(heap, boardSize, newRef, written) ==
    [k \in DOMAIN heap |->
        IF \E i \in Idx(boardSize) : newRef.rows[i] = k
        THEN written[CHOOSE i \in Idx(boardSize) : newRef.rows[i] = k]
        ELSE heap[k]]

\* The cells read through a board reference.
Deref(heap, ref, boardSize) == [i \in Idx(boardSize) |-> heap[ref.rows[i]]]

\* The two boards share no array object.
Separate(refA, refB, boardSize) ==
    /\ refA.outer # refB.outer
    /\ \A i \in Idx(boardSize), j \in Idx(boardSize) : refA.rows[i] # refB.rows[j]

\* makeMove as a call on a board object: `arg` is the content of the
\* argument object after the call, `ret` the content of the returned object
\* and `fresh` whether the returned object shares no array with the
\* argument.  An illegal move returns the argument itself; a legal move
\* copies the board and writes to the copy.
makeMoveCall(board, row, col, player, boardSize) ==
    IF ReturnsInput(board, row, col, player, boardSize)
    THEN [arg |-> Deref(ArgHeap(board, boardSize), ArgRef(boardSize), boardSize),
          ret |-> Deref(ArgHeap(board, boardSize), ArgRef(boardSize), boardSize),
          fresh |-> Separate(ArgRef(boardSize), ArgRef(boardSize), boardSize)]
    ELSE LET newRef == CopyBoard(boardSize)
             copied == HeapAfterCopy(board, boardSize, newRef)
             written == makeMove(Deref(copied, newRef, boardSize), row, col,
                                 player, boardSize)
             heap == HeapAfterWrites(copied, boardSize, newRef, written)
         IN  [arg |-> Deref(heap, ArgRef(boardSize), boardSize),
              ret |-> Deref(heap, newRef, boardSize),
              fresh |-> Separate(newRef, ArgRef(boardSize), boardSize)]

\* The cells in column-major order (the two loops exchanged).
ColumnMajorCells(boardSize) ==
    [k \in 1..(boardSize * boardSize) |->
        <<(k - 1) % boardSize, (k - 1) \div boardSize>>]

\* The cells in the order the nested loops of getValidMoves visit them: row
\* ascending, and column ascending within a row.
RowMajorCells(boardSize) ==
    [k \in 1..(boardSize * boardSize) |->
        <<(k - 1) \div boardSize, (k - 1) % boardSize>>]

\* getValidMoves pushes, in visiting order, every cell that isValidMove accepts.
getValidMoves(board, player, boardSize) ==
    SelectSeq(RowMajorCells(boardSize),
              LAMBDA rc : isValidMove(board, rc[1], rc[2], player, boardSize))

\* ScanCountRow that counts every cell that is not black as white.
RECURSIVE ScanCountRowElseWhite(_, _, _, _)
ScanCountRowElseWhite(board, boardSize, row, col) ==
    IF col >= boardSize THEN [black |-> 0, white |-> 0]
    ELSE LET rest == ScanCountRowElseWhite(board, boardSize, row, col + 1)
         IN  IF board[row][col] = "black"
             THEN [black |-> rest.black + 1, white |-> rest.white]
             ELSE [black |-> rest.black, white |-> rest.white + 1]

\* The inner loop of countPieces: the increments made for the cells of `row`
\* from column col on.
RECURSIVE ScanCountRow(_, _, _, _)
ScanCountRow(board, boardSize, row, col) ==
    IF col >= boardSize THEN [black |-> 0, white |-> 0]
    ELSE LET rest == ScanCountRow(board, boardSize, row, col + 1)
         IN  IF board[row][col] = "black"
             THEN [black |-> rest.black + 1, white |-> rest.white]
             ELSE IF board[row][col] = "white"
             THEN [black |-> rest.black, white |-> rest.white + 1]
             ELSE rest

\* The outer loop of countPieces: the increments made from row `row` on.
RECURSIVE ScanCount(_, _, _)
ScanCount(board, boardSize, row) ==
    IF row >= boardSize THEN [black |-> 0, white |-> 0]
    ELSE LET here == ScanCountRow(board, boardSize, row, 0)
             rest == ScanCount(board, boardSize, row + 1)
         IN  [black |-> here.black + rest.black, white |-> here.white + rest.white]

countPieces(board, boardSize) == ScanCount(board, boardSize, 0)

\* ------------------------------------------------------------------- state
VARIABLES
    gameState,      \* App state: "start" (StartScreen) or "playing" (GameScreen)
    boardSize,      \* App state, GameScreen prop / the engine's boardSize argument
    board,          \* GameScreen state; in SpecEngine the argument board
    currentPlayer,  \* GameScreen state
    gameOver,       \* GameScreen state
    winner,         \* GameScreen state: "black", "white", "tie" or "null"
    lastEvent,      \* how the last GameScreen handler ended
    moves,          \* clicks accepted since the board was last initialised
    op,             \* SpecEngine: the engine function called, or "idle"
    row,            \* SpecEngine: the call's row argument
    col,            \* SpecEngine: the call's col argument
    player,         \* SpecEngine: the call's player argument
    threw,          \* SpecEngine: the call raised a TypeError
    retBool,        \* SpecEngine: isValidMove's return value
    retBoard,       \* SpecEngine: the board makeMove returned
    retFresh,       \* SpecEngine: makeMove returned a new board object
    retMoves,       \* SpecEngine: getValidMoves' return value
    retCount        \* SpecEngine: countPieces' return value

sessionVars == <<gameState, boardSize, board, currentPlayer, gameOver, winner, lastEvent, moves>>

callVars == <<op, row, col, player, threw, retBool, retBoard, retFresh, retMoves, retCount>>

vars == <<gameState, boardSize, board, currentPlayer, gameOver, winner, lastEvent, moves,
          op, row, col, player, threw, retBool, retBoard, retFresh, retMoves, retCount>>

NoCall ==
    /\ op = "idle"
    /\ row = 0
    /\ col = 0
    /\ player = "black"
    /\ threw = FALSE
    /\ retBool = FALSE
    /\ retBoard = << >>
    /\ retFresh = FALSE
    /\ retMoves = << >>
    /\ retCount = [black |-> 0, white |-> 0]

\* ------------------------------------------------- App and GameScreen session
\* The size App holds before any size button was clicked.
DefaultBoardSize == 8

\* The useState initialisers of GameScreen, for the size it is mounted with.
GameScreenMounted(b, p, over, w, size) ==
    /\ b = createInitialBoard(size)
    /\ p = "black"
    /\ over = FALSE
    /\ w = "null"

\* No GameScreen is mounted: its state does not exist, and the variables
\* hold these values until the next mount.
NoGameScreen(b, p, over, w) ==
    /\ b = << >>
    /\ p = "null"
    /\ over = FALSE
    /\ w = "null"

\* The useState initialisers of App: the start screen is shown.
Init ==
    /\ gameState = "start"
    /\ boardSize = DefaultBoardSize
    /\ NoGameScreen(board, currentPlayer, gameOver, winner)
    /\ lastEvent = "start"
    /\ moves = 0
    /\ NoCall

\* A size button of the start screen: App keeps the size and shows a new
\* GameScreen, which starts from its initial state.
handleSelectSize(size) ==
    /\ gameState = "start"
    /\ boardSize' = size
    /\ gameState' = "playing"
    /\ GameScreenMounted(board', currentPlayer', gameOver', winner', size)
    /\ lastEvent' = "mount"
    /\ moves' = 0
    /\ UNCHANGED callVars

SelectSize == \E size \in BoardSizes : handleSelectSize(size)

\* The back button of GameScreen: App shows the start screen again and the
\* GameScreen, with its state, is unmounted; App keeps the size.
handleBackToStart ==
    /\ gameState = "playing"
    /\ gameState' = "start"
    /\ NoGameScreen(board', currentPlayer', gameOver', winner')
    /\ lastEvent' = "back"
    /\ moves' = 0
    /\ UNCHANGED boardSize
    /\ UNCHANGED callVars

\* One short game per size of the start screen, as the cells clicked in
\* turn by black, white, black, ...: after the ninth click white has no
\* piece left and the game is over.
ShortGame(size) ==
    IF size = 6
    THEN << <<1, 2>>, <<1, 1>>, <<1, 0>>, <<1, 3>>, <<1, 4>>,
            <<2, 4>>, <<3, 4>>, <<4, 2>>, <<5, 2>> >>
    ELSE << <<2, 3>>, <<2, 2>>, <<2, 1>>, <<2, 4>>, <<2, 5>>,
            <<3, 5>>, <<4, 5>>, <<1, 1>>, <<0, 0>> >>

\* The board after the first k clicks of the short game.
RECURSIVE ShortGameBoard(_, _)
ShortGameBoard(size, k) ==
    IF k = 0 THEN createInitialBoard(size)
    ELSE makeMove(ShortGameBoard(size, k - 1),
                  ShortGame(size)[k][1], ShortGame(size)[k][2],
                  IF k % 2 = 1 THEN "black" ELSE "white", size)

\* The clicks that are explored: every click on the exhaustive sizes; on the
\* other sizes every click of the first MaxMoves moves of a session and
\* every click in a position of the short game, its last one included.
WithinMoveBound ==
    IF boardSize \in ExhaustiveSizes \/ moves < MaxMoves THEN TRUE
    ELSE /\ moves <= Len(ShortGame(boardSize))
         /\ board = ShortGameBoard(boardSize, moves)

\* WinnerOf that gives a drawn count to black.
WinnerOfTieToBlack(count) ==
    IF count.black >= count.white THEN "black" ELSE "white"

\* The winner chosen from the piece counts when the game ends.
WinnerOf(count) ==
    IF count.black > count.white THEN "black"
    ELSE IF count.white > count.black THEN "white"
    ELSE "tie"

\* handleCellClick without the pass rule: the turn goes to the other player
\* whenever either player can still move.
handleCellClickNoPass(r, c) ==
    /\ gameState = "playing"
    /\ WithinMoveBound
    /\ IF gameOver \/ ~isValidMove(board, r, c, currentPlayer, boardSize)
       THEN /\ lastEvent' = "ignored"
            /\ UNCHANGED <<board, currentPlayer, gameOver, winner, moves>>
       ELSE LET newBoard == makeMove(board, r, c, currentPlayer, boardSize)
                nextPlayer == Opponent(currentPlayer)
                nextPlayerMoves == getValidMoves(newBoard, nextPlayer, boardSize)
                currentPlayerMoves == getValidMoves(newBoard, currentPlayer, boardSize)
            IN  /\ board' = newBoard
                /\ moves' = moves + 1
                /\ IF Len(nextPlayerMoves) > 0 \/ Len(currentPlayerMoves) > 0
                   THEN /\ currentPlayer' = nextPlayer
                        /\ lastEvent' = "switch"
                        /\ UNCHANGED <<gameOver, winner>>
                   ELSE /\ gameOver' = TRUE
                        /\ winner' = WinnerOf(countPieces(newBoard, boardSize))
                        /\ lastEvent' = "over"
                        /\ UNCHANGED currentPlayer
    /\ UNCHANGED <<gameState, boardSize>>
    /\ UNCHANGED callVars

\* handleCellClick that returns early only when the game is over.
handleCellClickNoLegalityTest(r, c) ==
    /\ gameState = "playing"
    /\ WithinMoveBound
    /\ IF gameOver
       THEN /\ lastEvent' = "ignored"
            /\ UNCHANGED <<board, currentPlayer, gameOver, winner, moves>>
       ELSE LET newBoard == makeMove(board, r, c, currentPlayer, boardSize)
                nextPlayer == Opponent(currentPlayer)
                nextPlayerMoves == getValidMoves(newBoard, nextPlayer, boardSize)
                currentPlayerMoves == getValidMoves(newBoard, currentPlayer, boardSize)
            IN  /\ board' = newBoard
                /\ moves' = moves + 1
                /\ IF Len(nextPlayerMoves) > 0
                   THEN /\ currentPlayer' = nextPlayer
                        /\ lastEvent' = "switch"
                        /\ UNCHANGED <<gameOver, winner>>
                   ELSE IF Len(currentPlayerMoves) > 0
                   THEN /\ lastEvent' = "pass"
                        /\ UNCHANGED <<currentPlayer, gameOver, winner>>
                   ELSE /\ gameOver' = TRUE
                        /\ winner' = WinnerOf(countPieces(newBoard, boardSize))
                        /\ lastEvent' = "over"
                        /\ UNCHANGED currentPlayer
    /\ UNCHANGED <<gameState, boardSize>>
    /\ UNCHANGED callVars

handleCellClick(r, c) ==
    /\ gameState = "playing"
    /\ WithinMoveBound
    /\ IF gameOver \/ ~isValidMove(board, r, c, currentPlayer, boardSize)
       THEN /\ lastEvent' = "ignored"
            /\ UNCHANGED <<board, currentPlayer, gameOver, winner, moves>>
       ELSE LET newBoard == makeMove(board, r, c, currentPlayer, boardSize)
                nextPlayer == Opponent(currentPlayer)
                nextPlayerMoves == getValidMoves(newBoard, nextPlayer, boardSize)
                currentPlayerMoves == getValidMoves(newBoard, currentPlayer, boardSize)
            IN  /\ board' = newBoard
                /\ moves' = moves + 1
                /\ IF Len(nextPlayerMoves) > 0
                   THEN /\ currentPlayer' = nextPlayer
                        /\ lastEvent' = "switch"
                        /\ UNCHANGED <<gameOver, winner>>
                   ELSE IF Len(currentPlayerMoves) > 0
                   THEN /\ lastEvent' = "pass"
                        /\ UNCHANGED <<currentPlayer, gameOver, winner>>
                   ELSE /\ gameOver' = TRUE
                        /\ winner' = WinnerOf(countPieces(newBoard, boardSize))
                        /\ lastEvent' = "over"
                        /\ UNCHANGED currentPlayer
    /\ UNCHANGED <<gameState, boardSize>>
    /\ UNCHANGED callVars

CellClick == \E r \in Idx(boardSize), c \in Idx(boardSize) : handleCellClick(r, c)

\* resetGame without setCurrentPlayer('black').
resetGameKeepsPlayer ==
    /\ gameState = "playing"
    /\ board' = createInitialBoard(boardSize)
    /\ gameOver' = FALSE
    /\ winner' = "null"
    /\ lastEvent' = "reset"
    /\ moves' = 0
    /\ UNCHANGED <<gameState, boardSize, currentPlayer>>
    /\ UNCHANGED callVars

\* resetGame without setWinner(null).
resetGameKeepsWinner ==
    /\ gameState = "playing"
    /\ board' = createInitialBoard(boardSize)
    /\ currentPlayer' = "black"
    /\ gameOver' = FALSE
    /\ lastEvent' = "reset"
    /\ moves' = 0
    /\ UNCHANGED <<gameState, boardSize, winner>>
    /\ UNCHANGED callVars

\* resetGame without setGameOver(false).
resetGameKeepsGameOver ==
    /\ gameState = "playing"
    /\ board' = createInitialBoard(boardSize)
    /\ currentPlayer' = "black"
    /\ winner' = "null"
    /\ lastEvent' = "reset"
    /\ moves' = 0
    /\ UNCHANGED <<gameState, boardSize, gameOver>>
    /\ UNCHANGED callVars

\* resetGame: the four setters, with the board of the session's size.
resetGame ==
    /\ gameState = "playing"
    /\ board' = createInitialBoard(boardSize)
    /\ currentPlayer' = "black"
    /\ gameOver' = FALSE
    /\ winner' = "null"
    /\ lastEvent' = "reset"
    /\ moves' = 0
    /\ UNCHANGED <<gameState, boardSize>>
    /\ UNCHANGED callVars

Next == SelectSize \/ CellClick \/ resetGame \/ handleBackToStart

Spec == Init /\ [][Next]_vars

\* --------------------------------------------- GameScreen as a component
\* A GameScreen mounted with a size of ExhaustiveSizes as its boardSize prop,
\* with its two handlers; the back button belongs to the App.
NextScreen == CellClick \/ resetGame

\* ------------------------------------------------- a game played to its end
\* One game without resets on a size that is explored to the end of every
\* game.  The players are the scheduler: they may click anywhere, and the
\* player to move goes on to click a legal cell whenever there is one.
InitPlay ==
    /\ gameState = "playing"
    /\ boardSize \in ExhaustiveSizes
    /\ GameScreenMounted(board, currentPlayer, gameOver, winner, boardSize)
    /\ lastEvent = "mount"
    /\ moves = 0
    /\ NoCall

\* A click gets past the guard of handleCellClick (the game is not over and
\* some cell is a valid move of the player to move) and is accepted; among
\* the steps of CellClick the accepted clicks are those that raise `moves`.
AcceptedClick ==
    /\ ~gameOver
    /\ \E r \in Idx(boardSize), c \in Idx(boardSize) :
          isValidMove(board, r, c, currentPlayer, boardSize)
    /\ moves' = moves + 1

SpecPlay == InitPlay /\ [][CellClick]_vars /\ WF_moves(AcceptedClick)

SpecScreen == InitPlay /\ [][NextScreen]_vars

\* ------------------------------------------------------------ engine calls
\* The boards that differ from `base` in at most k cells.
RECURSIVE EditsOf(_, _, _)
EditsOf(base, size, k) ==
    IF k = 0 THEN {base}
    ELSE LET prev == EditsOf(base, size, k - 1)
         IN  prev \cup {[b EXCEPT ![rc[1]][rc[2]] = v] :
                            b \in prev, rc \in Idx(size) \X Idx(size), v \in Cell}

EngineBoards(size) == EditsOf(createInitialBoard(size), size, MaxEdits)

\* Call arguments: every cell of the board and one step outside each edge.
Coords(size) == (-1) .. size

InitEngine ==
    /\ gameState = "playing"
    /\ boardSize \in EngineSizes
    /\ board \in EngineBoards(boardSize)
    /\ currentPlayer = "black"
    /\ gameOver = FALSE
    /\ winner = "null"
    /\ lastEvent = "mount"
    /\ moves = 0
    /\ NoCall

CallIsValidMove(r, c, p) ==
    /\ op = "idle"
    /\ op' = "isValidMove"
    /\ row' = r
    /\ col' = c
    /\ player' = p
    /\ IF RowFaults(board, r)
       THEN threw' = TRUE /\ retBool' = FALSE
       ELSE threw' = FALSE /\ retBool' = isValidMove(board, r, c, p, boardSize)
    /\ UNCHANGED <<retBoard, retFresh, retMoves, retCount>>
    /\ UNCHANGED sessionVars

CallMakeMove(r, c, p) ==
    /\ op = "idle"
    /\ op' = "makeMove"
    /\ row' = r
    /\ col' = c
    /\ player' = p
    /\ IF RowFaults(board, r)
       THEN /\ threw' = TRUE
            /\ UNCHANGED <<board, retBoard, retFresh>>
       ELSE LET out == makeMoveCall(board, r, c, p, boardSize)
            IN  /\ threw' = FALSE
                /\ board' = out.arg
                /\ retBoard' = out.ret
                /\ retFresh' = out.fresh
    /\ UNCHANGED <<retBool, retMoves, retCount>>
    /\ UNCHANGED <<gameState, boardSize, currentPlayer, gameOver, winner, lastEvent, moves>>

CallGetValidMoves(p) ==
    /\ op = "idle"
    /\ op' = "getValidMoves"
    /\ player' = p
    /\ retMoves' = getValidMoves(board, p, boardSize)
    /\ UNCHANGED <<row, col, threw, retBool, retBoard, retFresh, retCount>>
    /\ UNCHANGED sessionVars

CallCountPieces ==
    /\ op = "idle"
    /\ op' = "countPieces"
    /\ retCount' = countPieces(board, boardSize)
    /\ UNCHANGED <<row, col, player, threw, retBool, retBoard, retFresh, retMoves>>
    /\ UNCHANGED sessionVars

IsValidMoveStep ==
    \E r \in Coords(boardSize), c \in Coords(boardSize), p \in Players : CallIsValidMove(r, c, p)

MakeMoveStep ==
    \E r \in Coords(boardSize), c \in Coords(boardSize), p \in Players : CallMakeMove(r, c, p)

GetValidMovesStep == \E p \in Players : CallGetValidMoves(p)

NextEngine == IsValidMoveStep \/ MakeMoveStep \/ GetValidMovesStep \/ CallCountPieces

SpecEngine == InitEngine /\ [][NextEngine]_vars

\* ------------------------------------------------- the rules, stated apart
\* The 8 neighbour offsets, stated without the source's table.
Offsets8 == {d \in ((-1)..1) \X ((-1)..1) : d # <<0, 0>>}

\* From (r,c) in direction d: exactly k opponent cells, then a player cell.
CaptureRun(b, r, c, p, size, d, k) ==
    /\ \A j \in 1..k :
          /\ InBoard(r + j * d[1], c + j * d[2], size)
          /\ b[r + j * d[1]][c + j * d[2]] = Opponent(p)
    /\ InBoard(r + (k + 1) * d[1], c + (k + 1) * d[2], size)
    /\ b[r + (k + 1) * d[1]][c + (k + 1) * d[2]] = p

\* The capture pattern of the rules: an empty cell with a capturing direction.
CapturePattern(b, r, c, p, size) ==
    /\ b[r][c] = "null"
    /\ \E d \in Offsets8 : \E k \in 1..size : CaptureRun(b, r, c, p, size, d, k)

\* The cells a legal move at (r,c) captures.
Captured(b, r, c, p, size) ==
    {rc \in Idx(size) \X Idx(size) :
        \E d \in Offsets8 : \E k \in 1..size :
            /\ CaptureRun(b, r, c, p, size, d, k)
            /\ \E j \in 1..k : rc = <<r + j * d[1], c + j * d[2]>>}

\* The board the rules prescribe after a legal move at (r,c).
BoardAfter(b, r, c, p, size) ==
    [rr \in Idx(size) |-> [cc \in Idx(size) |->
        IF <<rr, cc>> = <<r, c>> \/ <<rr, cc>> \in Captured(b, r, c, p, size)
        THEN p ELSE b[rr][cc]]]

\* An opponent run next to (r,c) that ends at an empty cell or at the edge.
OpenRun(b, r, c, p, size) ==
    \E d \in Offsets8 :
        /\ InBoard(r + d[1], c + d[2], size)
        /\ b[r + d[1]][c + d[2]] = Opponent(p)
        /\ ~ \E k \in 1..size : CaptureRun(b, r, c, p, size, d, k)

CellsOf(b, size, v) == {rc \in Idx(size) \X Idx(size) : b[rc[1]][rc[2]] = v}

\* <<r1,c1>> comes before <<r2,c2>> in row-major order.
RowMajorBefore(a, b) == a[1] < b[1] \/ (a[1] = b[1] /\ a[2] < b[2])

\* ------------------------------------------------------------------ claims
\* C1: for every board, in-range cell and player, isValidMove returns true
\* exactly when the cell is empty and some direction holds one or more
\* opponent cells immediately followed, inside the board, by a cell of the
\* player; it returns false whenever the cell is occupied.
C1_IsValidMoveIffCapturePattern ==
    (op = "isValidMove" /\ InBoard(row, col, boardSize)) =>
        /\ ~threw
        /\ retBool = CapturePattern(board, row, col, player, boardSize)
        /\ (board[row][col] # "null" => retBool = FALSE)

\* C1 witness: isValidMove returned true for a move whose capturing run is
\* two opponent cells long.
C1_Witness ==
    /\ op = "isValidMove"
    /\ InBoard(row, col, boardSize)
    /\ retBool
    /\ \E d \in Offsets8 : CaptureRun(board, row, col, player, boardSize, d, 2)

\* C2: for a legal move, the board makeMove returns has the cell owned by
\* the player, every cell of every capturing run flipped to the player, and
\* every other cell (opponent runs that end at an empty cell or at the edge
\* included) as in the input board.
C2_MakeMoveFlipsExactlyCapturedRuns ==
    (op = "makeMove" /\ InBoard(row, col, boardSize)
        /\ CapturePattern(board, row, col, player, boardSize)) =>
        /\ ~threw
        /\ retBoard = BoardAfter(board, row, col, player, boardSize)

\* C2 witness: a legal makeMove that flipped a capturing run and left an
\* adjacent opponent run that ends without a player cell as it was.
C2_Witness ==
    /\ op = "makeMove"
    /\ InBoard(row, col, boardSize)
    /\ CapturePattern(board, row, col, player, boardSize)
    /\ OpenRun(board, row, col, player, boardSize)
    /\ retBoard # board
    /\ \E rc \in CellsOf(board, boardSize, Opponent(player)) :
          retBoard[rc[1]][rc[2]] = player
    /\ \E d \in Offsets8 :
          /\ InBoard(row + d[1], col + d[2], boardSize)
          /\ board[row + d[1]][col + d[2]] = Opponent(player)
          /\ retBoard[row + d[1]][col + d[2]] = Opponent(player)

\* C3: for an in-range cell where the move is illegal (occupied cell or no
\* capturing direction), makeMove returns a board equal cell for cell to the
\* input board and raises no error.
C3_IllegalMakeMoveReturnsInput ==
    (op = "makeMove" /\ InBoard(row, col, boardSize)
        /\ ~CapturePattern(board, row, col, player, boardSize)) =>
        /\ ~threw
        /\ retBoard = board

\* C3 witness: makeMove was called on an empty cell next to an opponent run
\* that captures nothing, and returned the input board.
C3_Witness ==
    /\ op = "makeMove"
    /\ InBoard(row, col, boardSize)
    /\ board[row][col] = "null"
    /\ ~CapturePattern(board, row, col, player, boardSize)
    /\ OpenRun(board, row, col, player, boardSize)
    /\ retBoard = board

\* C4: makeMove never mutates its argument: across every call, legal or
\* not, the argument board has the same cells after the call as before it,
\* and the result of a legal move is a separate board object.
C4_MakeMoveLeavesArgument ==
    [][op' = "makeMove" =>
          /\ board' = board
          /\ (InBoard(row', col', boardSize)
                /\ CapturePattern(board, row', col', player', boardSize)
              => retFresh')]_vars

\* C4 witness: a legal makeMove returned a new board that differs from the
\* argument board.
C4_Witness ==
    /\ op = "makeMove"
    /\ ~threw
    /\ retFresh
    /\ retBoard # board

\* C7 as stated: for every (row,col) outside the board on either axis,
\* isValidMove returns false and makeMove returns the input board, without
\* raising.  A row outside the board raises a TypeError at board[row][col].
C7_OutOfRangeNeverFaults ==
    (op \in {"isValidMove", "makeMove"} /\ ~InBoard(row, col, boardSize)) =>
        /\ ~threw
        /\ (op = "isValidMove" => retBool = FALSE)
        /\ (op = "makeMove" => retBoard = board)

\* C9: getValidMoves returns exactly the cells for which isValidMove is
\* true, each once, in row-major order, and the empty sequence when the
\* player has no legal move.
C9_GetValidMovesRowMajor ==
    op = "getValidMoves" =>
        /\ \A r \in Idx(boardSize), c \in Idx(boardSize) :
              isValidMove(board, r, c, player, boardSize)
                  <=> (\E i \in 1..Len(retMoves) : retMoves[i] = <<r, c>>)
        /\ \A i \in 1..Len(retMoves) :
              InBoard(retMoves[i][1], retMoves[i][2], boardSize)
        /\ \A i, j \in 1..Len(retMoves) :
              i < j => RowMajorBefore(retMoves[i], retMoves[j])
        /\ ((\A r \in Idx(boardSize), c \in Idx(boardSize) :
                ~CapturePattern(board, r, c, player, boardSize))
            => retMoves = << >>)

\* C9 witness: getValidMoves returned at least three moves, two of them in
\* one row and two of them in different rows.
C9_Witness ==
    /\ op = "getValidMoves"
    /\ Len(retMoves) >= 3
    /\ \E i, j \in 1..Len(retMoves) : i # j /\ retMoves[i][1] = retMoves[j][1]
    /\ \E i, j \in 1..Len(retMoves) : retMoves[i][1] # retMoves[j][1]

\* C10: countPieces returns the number of black cells and the number of
\* white cells, empty cells in neither, so that black + white + empty = N*N
\* and black + white <= N*N, for the board of every state.
C10_CountPiecesPartition ==
    LET count == countPieces(board, boardSize)
        empty == Cardinality(CellsOf(board, boardSize, "null"))
    IN  /\ count.black = Cardinality(CellsOf(board, boardSize, "black"))
        /\ count.white = Cardinality(CellsOf(board, boardSize, "white"))
        /\ count.black + count.white + empty = boardSize * boardSize
        /\ count.black + count.white <= boardSize * boardSize
        /\ (op = "countPieces" => retCount = count)

\* C10 witness: countPieces was called on a board with black, white and
\* empty cells and unequal counts.
C10_Witness ==
    /\ op = "countPieces"
    /\ retCount.black >= 1
    /\ retCount.white >= 1
    /\ retCount.black # retCount.white
    /\ CellsOf(board, boardSize, "null") # {}

\* Some cell of the board is a legal move for the player, by the rules.
HasLegalMove(b, p, size) ==
    \E r \in Idx(size), c \in Idx(size) : CapturePattern(b, r, c, p, size)

\* A step of a mounted GameScreen in which a click was accepted: a move
\* always fills a cell.
AcceptedMove ==
    /\ gameState = "playing" /\ gameState' = "playing"
    /\ board' # board
    /\ lastEvent' # "reset"

\* The winner by piece counts, counted without countPieces.
WinnerByCount(b, size) ==
    LET blacks == Cardinality(CellsOf(b, size, "black"))
        whites == Cardinality(CellsOf(b, size, "white"))
    IN  IF blacks > whites THEN "black"
        ELSE IF whites > blacks THEN "white"
        ELSE "tie"

\* C5: after every accepted move, the player to move is the other player if
\* the other player has a legal move on the new board; otherwise, if the
\* player who just moved has one, the player to move stays the same and the
\* game is not over.
C5_TurnAdvanceAndPass ==
    [][AcceptedMove =>
          /\ (HasLegalMove(board', Opponent(currentPlayer), boardSize)
                => currentPlayer' = Opponent(currentPlayer))
          /\ ((~HasLegalMove(board', Opponent(currentPlayer), boardSize)
                 /\ HasLegalMove(board', currentPlayer, boardSize))
                => (currentPlayer' = currentPlayer /\ ~gameOver'))]_vars

\* C5 witness: the last click was accepted and the mover kept the turn,
\* because the other player has no legal move and the mover has one.
C5_Witness ==
    /\ lastEvent = "pass"
    /\ ~gameOver
    /\ ~HasLegalMove(board, Opponent(currentPlayer), boardSize)
    /\ HasLegalMove(board, currentPlayer, boardSize)

\* C6: after an accepted move the game is over exactly when neither player
\* has a legal move on the new board, and the winner is then the player with
\* strictly more pieces on that board, or tie when the counts are equal.
C6_GameOverAndWinner ==
    [][AcceptedMove =>
          /\ (gameOver' <=> (~HasLegalMove(board', "black", boardSize)
                              /\ ~HasLegalMove(board', "white", boardSize)))
          /\ (gameOver' => winner' = WinnerByCount(board', boardSize))
          /\ (~gameOver' => winner' = "null")]_vars

\* C6 witness: the game ended in a tie on a blocked board that is not full.
C6_Witness ==
    /\ gameOver
    /\ lastEvent = "over"
    /\ winner = "tie"
    /\ CellsOf(board, boardSize, "null") # {}
    /\ ~HasLegalMove(board, "black", boardSize)
    /\ ~HasLegalMove(board, "white", boardSize)

\* C8: a click on a cell that is not a legal move for the current player
\* changes nothing: board, player to move, game-over flag and winner are the
\* same after the click.  (Stated as: a step that changes one of them is not
\* a click on such a cell.)
C8_IllegalClickChangesNothing ==
    [][(/\ gameState = "playing"
        /\ <<board, currentPlayer, gameOver, winner>>' # <<board, currentPlayer, gameOver, winner>>)
          => \A r \in Idx(boardSize), c \in Idx(boardSize) :
                ~CapturePattern(board, r, c, currentPlayer, boardSize)
                    => ~handleCellClick(r, c)]_vars

\* C8 witness: in the middle of a game a click was ignored.
C8_Witness ==
    /\ lastEvent = "ignored"
    /\ ~gameOver
    /\ board # createInitialBoard(boardSize)
    /\ \E r \in Idx(boardSize), c \in Idx(boardSize) :
          board[r][c] = "null" /\ ~CapturePattern(board, r, c, currentPlayer, boardSize)

\* ------------------------------------------- start position and reset claims
\* The start position of the rules for an even size, cell by cell: the two
\* centre cells of the main diagonal are white, the other two centre cells
\* are black, the rest is empty.
StartCell(size, r, c) ==
    LET mid == {size \div 2 - 1, size \div 2}
    IN  IF r \in mid /\ c \in mid
        THEN (IF r = c THEN "white" ELSE "black")
        ELSE "null"

StartBoard(size) == [r \in Idx(size) |-> [c \in Idx(size) |-> StartCell(size, r, c)]]

\* C11: from any session state, mid-game or game over, the reset action
\* yields exactly the session start state: the initial board of the
\* session's size, black to move, the game-over flag false, no winner.
C11_ResetYieldsStartState ==
    [][lastEvent' = "reset"
          => /\ boardSize' = boardSize
             /\ board' = StartBoard(boardSize)
             /\ currentPlayer' = "black"
             /\ gameOver' = FALSE
             /\ winner' = "null"]_vars

\* C11 witness: a reset has just put the session back in its start state.
C11_Witness ==
    /\ lastEvent = "reset"
    /\ moves = 0
    /\ board = StartBoard(boardSize)
    /\ currentPlayer = "black"
    /\ ~gameOver
    /\ winner = "null"

\* C12: createInitialBoard(N) is an N x N board with white at (N/2-1,N/2-1)
\* and (N/2,N/2), black at (N/2-1,N/2) and (N/2,N/2-1) and every other cell
\* empty; for N = 8 these are [3][3] and [4][4] white, [3][4] and [4][3]
\* black, 60 empty cells and countPieces = {black: 2, white: 2}.  The board
\* is the one GameScreen holds right after a mount or a reset.
C12_InitialBoardShape ==
    lastEvent \in {"mount", "reset"} =>
        LET h == boardSize \div 2
        IN  /\ DOMAIN board = Idx(boardSize)
            /\ \A r \in Idx(boardSize) : DOMAIN board[r] = Idx(boardSize)
            /\ board[h - 1][h - 1] = "white" /\ board[h][h] = "white"
            /\ board[h - 1][h] = "black" /\ board[h][h - 1] = "black"
            /\ \A r \in Idx(boardSize), c \in Idx(boardSize) :
                  <<r, c>> \notin {<<h - 1, h - 1>>, <<h, h>>, <<h - 1, h>>, <<h, h - 1>>}
                      => board[r][c] = "null"
            /\ boardSize = 8 =>
                  /\ board[3][3] = "white" /\ board[3][4] = "black"
                  /\ board[4][3] = "black" /\ board[4][4] = "white"
                  /\ Cardinality(CellsOf(board, 8, "null")) = 60
                  /\ countPieces(board, 8) = [black |-> 2, white |-> 2]

\* C12 witness: an 8 x 8 session right after its mount.
C12_Witness ==
    /\ lastEvent = "mount"
    /\ boardSize = 8
    /\ board[3][3] = "white"
    /\ board[0][0] = "null"

\* ------------------------------------------------- flips and counts claims
\* The cells a makeMove call turned from the opponent's colour to the
\* player's.
FlippedCells(before, after, p, size) ==
    {rc \in Idx(size) \X Idx(size) :
        before[rc[1]][rc[2]] = Opponent(p) /\ after[rc[1]][rc[2]] = p}

\* The pairs <<d, j>> such that rc is the j-th cell from (r,c) on the line
\* of direction d.
LinesThrough(r, c, rc, size) ==
    {dj \in Offsets8 \X (1..size) :
        rc = <<r + dj[2] * dj[1][1], c + dj[2] * dj[1][2]>>}

\* C13: after makeMove, every cell that changed from the opponent to the
\* player lies on one of the 8 straight lines from the move's cell with no
\* empty cell between it and that cell, and it lies on exactly one of the
\* lines, so no cell is flipped by more than one direction.
C13_FlipsOnLinesWithoutGaps ==
    (op = "makeMove" /\ ~threw) =>
        \A rc \in FlippedCells(board, retBoard, player, boardSize) :
            /\ Cardinality(LinesThrough(row, col, rc, boardSize)) = 1
            /\ \A dj \in LinesThrough(row, col, rc, boardSize) :
                  \A i \in 1..(dj[2] - 1) :
                      board[row + i * dj[1][1]][col + i * dj[1][2]] # "null"

\* C13 witness: a makeMove call flipped the second cell of a line.
C13_Witness ==
    /\ op = "makeMove"
    /\ ~threw
    /\ retFresh
    /\ \E rc \in FlippedCells(board, retBoard, player, boardSize) :
          \E dj \in LinesThrough(row, col, rc, boardSize) : dj[2] = 2

\* C14: on the standard initial 8 x 8 board with black to move,
\* isValidMove(board, 2, 3, black) is true and isValidMove(board, 0, 0, black)
\* is false.
C14_OpeningMoves8 ==
    (boardSize = 8 /\ board = StartBoard(8) /\ currentPlayer = "black") =>
        /\ isValidMove(board, 2, 3, "black", 8) = TRUE
        /\ isValidMove(board, 0, 0, "black", 8) = FALSE

\* C14 witness: on 8 x 8 the opening click at (2,3) was accepted and turned
\* the white piece at (3,3).
C14_Witness ==
    /\ boardSize = 8
    /\ moves = 1
    /\ board[2][3] = "black"
    /\ board[3][3] = "black"
    /\ board = [StartBoard(8) EXCEPT ![2][3] = "black", ![3][3] = "black"]

\* C18: every accepted (legal) move adds exactly one piece to the board and
\* flips at least one: black + white grows by exactly 1, the mover's count
\* grows by at least 2, and the opponent's count drops by at least 1, by
\* exactly the number of flipped cells.
C18_MoveAddsOneAndFlips ==
    (op = "makeMove" /\ ~threw /\ retFresh) =>
        LET before == countPieces(board, boardSize)
            after == countPieces(retBoard, boardSize)
            flipped == Cardinality(FlippedCells(board, retBoard, player, boardSize))
        IN  /\ board[row][col] = "null" /\ retBoard[row][col] = player
            /\ after.black + after.white = before.black + before.white + 1
            /\ after[player] >= before[player] + 2
            /\ after[Opponent(player)] <= before[Opponent(player)] - 1
            /\ before[Opponent(player)] - after[Opponent(player)] = flipped
            /\ after[player] = before[player] + 1 + flipped

\* C18 witness: an accepted move by white that flipped two cells or more.
C18_Witness ==
    /\ op = "makeMove"
    /\ ~threw
    /\ retFresh
    /\ player = "white"
    /\ Cardinality(FlippedCells(board, retBoard, player, boardSize)) >= 2
    /\ countPieces(retBoard, boardSize).white >= countPieces(board, boardSize).white + 3

\* ------------------------------------------------ session invariant claims
\* C15: in every reachable session state, if the game is not over then the
\* player to move has at least one legal move on the current board.
C15_PlayerToMoveCanMove ==
    (gameState = "playing" /\ ~gameOver) => HasLegalMove(board, currentPlayer, boardSize)

\* C15 witness: after a pass the turn stayed with white, who can move, while
\* black cannot.
C15_Witness ==
    /\ ~gameOver
    /\ lastEvent = "pass"
    /\ currentPlayer = "white"
    /\ HasLegalMove(board, "white", boardSize)
    /\ ~HasLegalMove(board, "black", boardSize)

\* C16: the game-over flag and the winner agree: the winner is none exactly
\* when the game is not over, and when the game is over neither player has
\* a legal move on the current board and the winner is the result of
\* comparing the piece counts of that board.
C16_GameOverAgreesWithWinner ==
    gameState = "playing" =>
        /\ (winner = "null") <=> ~gameOver
        /\ gameOver =>
              /\ ~HasLegalMove(board, "black", boardSize)
              /\ ~HasLegalMove(board, "white", boardSize)
              /\ winner = WinnerByCount(board, boardSize)

\* C16 witness: a game over on a full board that white won.
C16_Witness ==
    /\ gameOver
    /\ winner = "white"
    /\ CellsOf(board, boardSize, "null") = {}
    /\ Cardinality(CellsOf(board, boardSize, "white"))
          > Cardinality(CellsOf(board, boardSize, "black"))

\* In a game-over state of the mounted GameScreen, no click on any cell
\* changes the board, the player to move, the game-over flag or the winner,
\* and a reset clears the flag and the winner.
GameOverIgnoresClicks ==
    /\ \A r \in Idx(boardSize), c \in Idx(boardSize) :
          handleCellClick(r, c)
              => UNCHANGED <<board, currentPlayer, gameOver, winner>>
    /\ lastEvent' = "reset" => (~gameOver' /\ winner' = "null")

\* The step ends in a game-over state of the mounted GameScreen.
StillGameOver == gameState' = "playing" /\ gameOver'

\* C17, as stated: game over is absorbing for moves: once the game-over
\* flag is set, every cell click leaves the board, the player to move, the
\* game-over flag and the winner unchanged; only the reset action leaves the
\* game-over state.
C17_OnlyResetLeavesGameOver ==
    [][(gameState = "playing" /\ gameOver)
          => /\ GameOverIgnoresClicks
             /\ ~StillGameOver => lastEvent' = "reset"]_vars

\* C17, amended: once the game-over flag is set, every cell click leaves
\* the board, the player to move, the game-over flag and the winner
\* unchanged; the game-over state is left only by the reset action, which
\* restarts the game, or by the back button, which unmounts the GameScreen
\* and shows the start screen.
C17_GameOverAbsorbing ==
    [][(gameState = "playing" /\ gameOver)
          => /\ GameOverIgnoresClicks
             /\ ~StillGameOver => lastEvent' \in {"reset", "back"}
             /\ lastEvent' = "reset" => gameState' = "playing"
             /\ lastEvent' = "back" => gameState' = "start"]_vars

\* C17 witness: a click was made, and ignored, after the game was over.
C17_Witness ==
    /\ gameOver
    /\ winner # "null"
    /\ lastEvent = "ignored"
    /\ moves > 0

\* The four centre cells of the board.
CentreCells(size) == {size \div 2 - 1, size \div 2} \X {size \div 2 - 1, size \div 2}

\* C19: between resets occupancy is monotonic: a cell that is occupied stays
\* occupied, by either colour, in every later state, so the four centre
\* cells are never empty and no move empties a cell.
C19_OccupancyMonotonic ==
    /\ [](gameState = "playing"
            => \A rc \in CentreCells(boardSize) : board[rc[1]][rc[2]] # "null")
    /\ [][(gameState = "playing" /\ gameState' = "playing" /\ lastEvent' # "reset")
             => \A r \in Idx(boardSize), c \in Idx(boardSize) :
                   board[r][c] # "null" => board'[r][c] # "null"]_vars

\* C19 witness: mid-game, pieces have been turned (a centre cell changed its
\* colour) and every centre cell is still occupied.
C19_Witness ==
    /\ lastEvent \in {"switch", "pass"}
    /\ moves >= 2
    /\ \E rc \in CentreCells(boardSize) :
          board[rc[1]][rc[2]] \notin {"null", StartCell(boardSize, rc[1], rc[2])}
    /\ \A rc \in CentreCells(boardSize) : board[rc[1]][rc[2]] # "null"

\* C20: every game ends: with no reset, at most N*N - 4 moves are accepted
\* from the start state, and if the player to move keeps playing some legal
\* move whenever one exists, the session eventually reaches game over with
\* a winner set.
C20_EveryGameEnds ==
    /\ [](moves <= boardSize * boardSize - 4)
    /\ <>(gameOver /\ winner # "null")

\* C20 witness: a game that ended on a full board after N*N - 4 accepted
\* moves.
C20_Witness ==
    /\ gameOver
    /\ winner # "null"
    /\ moves = boardSize * boardSize - 4
    /\ CellsOf(board, boardSize, "null") = {}

====
